---- MODULE Spec2Model ----
(***************************************************************************)
(* Model of sfmcli's populate command (src/sfmcli/sfmc.py): catalog        *)
(* discovery and linking, page scheduling (get_pages), and the two-stage   *)
(* transfer pipeline run by a process pool over the persisted store.       *)
(***************************************************************************)
EXTENDS Integers, Sequences, FiniteSets, TLC

\* ------------------------------------------------------------------ bounds
MaxRuns == 2          \* populate invocations in one behaviour
MaxListing == 2       \* items in one catalog listing response
MaxEntries == 2       \* rows of the DataExtension table
MaxPages == 3         \* rows of the DataExtensionPage table
MaxReportPages == 2   \* pages of the entry a report is generated for
MaxResults == 2       \* items in the results of one page
MaxErrors == 2        \* errors of one result item
MaxTokenRequests == 3 \* get_access_token calls in one behaviour
MaxTime == 3          \* the latest time.time()

\* ----------------------------------------------------------- input domains
NULL == "null"        \* Python None / SQL NULL

\* configured environments: config['name'], config['subdomain']
Configs ==
  { [name |-> "e1", subdomain |-> "s1"],
    [name |-> "e2", subdomain |-> "s2"] }

Names == {"a", "b"}

\* external keys the platform assigns to a data extension name per environment
KeyTable ==
  [ e1 |-> [a |-> "e1a", b |-> "e1b"],
    e2 |-> [a |-> "e2a", b |-> "e2b"] ]

\* items a catalog index endpoint of environment env can return
Items(env) == { [name |-> n, external_key |-> KeyTable[env][n]] : n \in Names }

RECURSIVE SeqsUpTo(_, _)
SeqsUpTo(S, n) ==
  IF n = 0 THEN { <<>> }
  ELSE LET shorter == SeqsUpTo(S, n - 1) IN
       shorter \cup { Append(s, x) : s \in { t \in shorter : Len(t) = n - 1 }, x \in S }

Listings(env) == SeqsUpTo(Items(env), MaxListing)

\* sample rows of a probe: serialized byte size, number of value fields,
\* number of key fields
SampleRecords ==
  { [size |-> 1200, values |-> 10, keys |-> 0],
    [size |-> 2000, values |-> 10, keys |-> 1] }

\* row counts a probe can report besides 0
Counts == {501, 5000001}

\* probe responses: count plus items[0] (no item when the count is 0)
NoSample == [size |-> 0, values |-> 0, keys |-> 0]

NoResponse == [count |-> 0, sample |-> NoSample]

ProbeResponses ==
  { NoResponse }
  \cup { [count |-> c, sample |-> s] : c \in Counts, s \in SampleRecords }

\* requestId values returned by the asynchronous write endpoint
RequestIds == {"r1"}

\* a key a response dict does not hold
Missing == "missing"

\* the processes of Pool(): TOKENS is a module global, so each has its own
Workers == {"w1", "w2"}

EnvNames == { config.name : config \in Configs }

\* bodies the token endpoint can answer with: both fields, or one of them
\* missing (expires_in is {seconds}, {} when missing)
TokenResponses ==
  { [access_token |-> t, expires_in |-> {d}] : t \in {"t1", "t2"}, d \in {1, 2} }
  \cup { [access_token |-> Missing, expires_in |-> {2}],
         [access_token |-> "t1", expires_in |-> {}] }

NoTokenResponse == [access_token |-> Missing, expires_in |-> {}]

VARIABLES
  data_extensions,        \* DataExtension table; a row's id is its index
  data_extension_pages,   \* DataExtensionPage table; a row's id is its index
  pc,                     \* position of the populate main process
  args,                   \* (origin, target, update_only) of the current run
  runs,                   \* number of populate invocations so far
  get_pages_tasks,        \* pool.starmap(get_pages, ...): entry id -> unit
  pipeline_tasks,         \* pool.starmap(pipeline, ...): page id -> unit
  committed,              \* catalog sub-operations committed in this run
  attempts,               \* per page id: stage invocations over all runs
  last_listing,           \* {origin and listing of the last discovery committed}
  last_probe,             \* per entry id: {arguments of its last completed get_pages}
  repeated,               \* operations of this run whose input was that of their last run
  get_pages_call,         \* one get_pages call: its probe response, what it returned
  reports,                \* generate_report_for_data_extension: its reports dict
  report_call,            \* that call: its pages, its position, the responses read
  TOKENS,                 \* per pool process: the module's TOKENS dict
  token_calls,            \* per pool process: its get_access_token call
  now,                    \* time.time()
  token_requests          \* number of get_access_token calls so far

\* the state of populate
populate_vars == << data_extensions, data_extension_pages, pc, args, runs,
                    get_pages_tasks, pipeline_tasks, committed, attempts,
                    last_listing, last_probe, repeated >>

\* what a step of populate does not touch
report_vars == << reports, report_call >>

token_vars == << TOKENS, token_calls, now, token_requests >>

other_vars == << get_pages_call, report_vars, token_vars >>

vars == << populate_vars, other_vars >>

\* ------------------------------------------------------------ store access
\* DataExtension(name=..., origin_external_key=..., origin_instance=...)
DataExtension(name, origin_external_key, origin_instance) ==
  [ name |-> name,
    origin_external_key |-> origin_external_key,
    origin_instance |-> origin_instance,
    target_external_key |-> NULL,
    target_instance |-> NULL ]

\* session.query(DataExtension).filter_by(name=..., origin_instance=...).first():
\* the id of the first matching row, 0 for None
FirstDataExtension(table, name, origin_instance) ==
  LET hits == { i \in 1..Len(table) :
                  /\ table[i].name = name
                  /\ table[i].origin_instance = origin_instance }
  IN IF hits = {} THEN 0 ELSE CHOOSE i \in hits : \A j \in hits : i <= j

\* the test of line 83, made against the committed table
OriginRowMissingAlways(table, de, config) == TRUE

OriginRowMissing(table, de, config) ==
  FirstDataExtension(table, de.name, config.name) = 0

\* the loop of get_data_extensions_with_origin_info: the rows it collects for
\* session.add_all, from item k of the response on
RECURSIVE NewDataExtensions(_, _, _, _)
NewDataExtensions(response, k, config, table) ==
  IF k > Len(response) THEN << >>
  ELSE LET de == response[k]
           rest == NewDataExtensions(response, k + 1, config, table)
       IN IF OriginRowMissing(table, de, config)
          THEN << DataExtension(de.name, de.external_key, config.name) >> \o rest
          ELSE rest

\* the loop of update_data_extensions_target_info: the table after items k..
\* of the target listing have each updated the first row they match
RECURSIVE LinkTarget(_, _, _, _, _)
LinkTarget(response, k, origin, target, table) ==
  IF k > Len(response) THEN table
  ELSE LET de == response[k]
           id == FirstDataExtension(table, de.name, origin.name)
           linked == IF id = 0 THEN table
                     ELSE [table EXCEPT ![id].target_external_key = de.external_key,
                                        ![id].target_instance = target.name]
       IN LinkTarget(response, k + 1, origin, target, linked)

\* ------------------------------------------------------------------- state
NoTasks == << >>

Idle == {"idle", "returned", "raised"}

NoRepeat == [origin_info |-> FALSE, get_pages |-> {}]

NoArgs == [origin |-> NULL, target |-> NULL, update_only |-> FALSE]

InitPopulate ==
  /\ data_extensions = << >>
  /\ data_extension_pages = << >>
  /\ pc = "idle"
  /\ args = NoArgs
  /\ runs = 0
  /\ get_pages_tasks = NoTasks
  /\ pipeline_tasks = NoTasks
  /\ committed = {}
  /\ attempts = << >>
  /\ last_listing = {}
  /\ last_probe = << >>
  /\ repeated = NoRepeat

\* no get_pages call is under observation
NoCall == [state |-> "none", response |-> NoResponse, page_size |-> {}, ret |-> {}]

\* no generate_report_for_data_extension call is under observation
NoReportCall == [state |-> "none", pages |-> << >>, page |-> 0, read |-> << >>]

ReportUnused ==
  /\ reports = << >>
  /\ report_call = NoReportCall

\* a pool process that has not called get_access_token
NoTokenCall ==
  [ state |-> "none", request |-> 0, name |-> NULL, exchanges |-> 0,
    raced |-> FALSE, response |-> NoTokenResponse, at |-> 0, ret |-> {} ]

\* line 33, and the pool processes as they start
TokensUnused ==
  /\ TOKENS = [w \in Workers |-> [name \in EnvNames |-> {}]]
  /\ token_calls = [w \in Workers |-> NoTokenCall]
  /\ now = 0
  /\ token_requests = 0

Init ==
  /\ InitPopulate
  /\ get_pages_call = NoCall
  /\ ReportUnused
  /\ TokensUnused

\* --------------------------------------------------------- populate: catalog
\* listings the catalog index endpoint of the run's origin / target can return
OriginListings == IF pc = "origin_info" THEN Listings(args.origin.name) ELSE {}

TargetListings == IF pc = "target_info" THEN Listings(args.target.name) ELSE {}

\* populate(origin, target, update_only) is called
Populate(origin, target, update_only) ==
  /\ pc \in Idle
  /\ runs < MaxRuns
  /\ runs' = runs + 1
  /\ pc' = "origin_info"
  /\ args' = [origin |-> origin, target |-> target, update_only |-> update_only]
  /\ committed' = {}
  /\ UNCHANGED << other_vars, data_extensions, data_extension_pages, get_pages_tasks,
                  pipeline_tasks, attempts, last_listing, last_probe, repeated >>

\* populate ends: its return value or exception reaches the caller
Leave(how) ==
  /\ pc' = how
  /\ args' = NoArgs
  /\ get_pages_tasks' = NoTasks
  /\ pipeline_tasks' = NoTasks
  /\ committed' = {}
  /\ repeated' = NoRepeat

\* get_data_extensions_with_origin_info(origin), the listing fetched
GetDataExtensionsWithOriginInfo(response) ==
  /\ pc = "origin_info"
  /\ LET new == NewDataExtensions(response, 1, args.origin, data_extensions) IN
       /\ Len(data_extensions) + Len(new) <= MaxEntries
       /\ data_extensions' = data_extensions \o new
       /\ last_probe' = last_probe \o [i \in 1..Len(new) |-> {}]
  /\ last_listing' = {[config |-> args.origin, response |-> response]}
  /\ repeated' = [repeated EXCEPT !.origin_info = (last_listing' = last_listing)]
  /\ committed' = committed \cup {"origin_info"}
  /\ pc' = "target_info"
  /\ UNCHANGED << other_vars, data_extension_pages, args, runs, get_pages_tasks,
                  pipeline_tasks, attempts >>

\* requests.get(...).json() or a listed item raises: nothing was added
GetDataExtensionsWithOriginInfoRaises ==
  /\ pc = "origin_info"
  /\ Leave("raised")
  /\ UNCHANGED << other_vars, data_extensions, data_extension_pages, runs,
                  attempts, last_listing, last_probe >>

\* update_data_extensions_target_info(origin, target), the listing fetched
UpdateDataExtensionsTargetInfo(response) ==
  /\ pc = "target_info"
  /\ data_extensions' = LinkTarget(response, 1, args.origin, args.target, data_extensions)
  /\ committed' = committed \cup {"target_info"}
  /\ pc' = "get_pages"
  /\ UNCHANGED << other_vars, data_extension_pages, args, runs, get_pages_tasks,
                  pipeline_tasks, attempts, last_listing, last_probe, repeated >>

\* rows changed in the session when the exception leaves populate: line 109,
\* session.commit(), was not reached, the table keeps what was committed
Flushed(table, dirty) == dirty

Uncommitted(table, dirty) == table

\* the target listing, or an item of it, raises before session.commit():
\* nothing is written
UpdateDataExtensionsTargetInfoRaises ==
  /\ pc = "target_info"
  /\ \E response \in TargetListings :
       data_extensions' =
         Uncommitted(data_extensions,
                     LinkTarget(response, 1, args.origin, args.target, data_extensions))
  /\ Leave("raised")
  /\ UNCHANGED << other_vars, data_extension_pages, runs,
                  attempts, last_listing, last_probe >>

\* -------------------------------------------------------- populate: get_pages
\* get_pages skips an entry with more rows than this (line 139)
MaxCount == 5000000

\* thresholds of get_dynamic_size (lines 116, 119, 122)
LargeRecord == 3000
MediumRecord == 1500
ManyFields == 20

\* get_dynamic_size(record)
get_dynamic_size_inclusive(record) ==
  IF record.size >= LargeRecord THEN 100
  ELSE IF record.size > MediumRecord THEN 500
  ELSE IF record.values > ManyFields THEN 1000
  ELSE 2500

get_dynamic_size(record) ==
  IF record.size > LargeRecord THEN 100
  ELSE IF record.size > MediumRecord THEN 500
  ELSE IF record.values > ManyFields THEN 1000
  ELSE 2500

\* math.ceil(count / page_size) for positive integers
CeilTruncated(count, page_size) == count \div page_size

Ceil(count, page_size) == (count + page_size - 1) \div page_size

\* f'{base_url}&$page={page}' of lines 154-157
PageUrl(config, data_extension, page_size, page) ==
  [ subdomain |-> config.subdomain,
    key |-> data_extension.origin_external_key,
    pageSize |-> page_size,
    page |-> page ]

\* DataExtensionPage(url=..., data_extension_id=..., status='new', has_sfmc_key=...)
DataExtensionPage(url, data_extension_id, has_sfmc_key) ==
  [ url |-> url,
    data_extension_id |-> data_extension_id,
    status |-> "new",
    has_sfmc_key |-> has_sfmc_key,
    request_id |-> NULL ]

\* session.query(DataExtensionPage).filter_by(url=...).first() is None
PageMissingAlways(table, url) == TRUE

PageMissing(table, url) ==
  \A i \in 1..Len(table) : table[i].url # url

\* the filter of lines 376-381
EligibleAny(table) == 1..Len(table)

Eligible(table) ==
  { i \in 1..Len(table) :
      /\ table[i].origin_instance # NULL
      /\ table[i].target_instance # NULL }

\* the loop of lines 153-166: the rows collected for session.add_all, from
\* page index `page` on
NewPages(config, id, data_extension, page_size, has_sfmc_key, page, last) ==
  LET rows == [k \in 1..(last - page + 1) |->
                 DataExtensionPage(PageUrl(config, data_extension, page_size,
                                           page + k - 1),
                                   id, has_sfmc_key)]
  IN SelectSeq(rows, LAMBDA row : PageMissing(data_extension_pages, row.url))

\* lines 139-145: the entry is skipped and get_pages returns 0
Skipped(count) == count > MaxCount \/ ~(count > 0)

\* what get_pages returns: 0 at lines 141 and 145; the scheduling path and the
\* except clause end without a return statement, so None ({} here, {v} for
\* a value v)
GetPagesReturn(response) == IF Skipped(response.count) THEN {0} ELSE {}

\* lines 147-166: the rows get_pages adds for entry id on this probe response
ScheduledPages(config, id, response) ==
  IF Skipped(response.count) THEN << >>
  ELSE LET page_size == get_dynamic_size(response.sample) IN
       NewPages(config, id, data_extensions[id], page_size,
                response.sample.keys > 0, 1, Ceil(response.count, page_size))

NoAttempts == [fetch |-> 0, push |-> 0]

\* lines 372-394: the eligible entries are read and handed to the pool
StartGetPages ==
  /\ pc = "get_pages"
  /\ LET data_extensions_ == Eligible(data_extensions) IN
       IF data_extensions_ = {}
       THEN /\ Leave("returned")
            /\ UNCHANGED << other_vars, data_extensions, data_extension_pages, runs,
                            attempts, last_listing, last_probe >>
       ELSE /\ get_pages_tasks' = [e \in data_extensions_ |-> "pending"]
            /\ pc' = "starmap_get_pages"
            /\ UNCHANGED << other_vars, data_extensions, data_extension_pages, args, runs,
                            pipeline_tasks, committed, attempts, last_listing,
                            last_probe, repeated >>

\* get_pages(data_extension, config), the probe answered by response, as far
\* as the store and the pool see it. The
\* unit reads and writes only rows under URLs of its own entry, so its queries
\* and its commit are taken as one step.
GetPagesUnit(e, response) ==
  /\ pc = "starmap_get_pages"
  /\ e \in DOMAIN get_pages_tasks
  /\ get_pages_tasks[e] = "pending"
  /\ LET data_extension_pages_ == ScheduledPages(args.origin, e, response) IN
       /\ data_extension_pages' = data_extension_pages \o data_extension_pages_
       /\ attempts' = attempts \o [i \in 1..Len(data_extension_pages_) |-> NoAttempts]
  /\ last_probe' =
       IF Skipped(response.count) THEN last_probe
       ELSE [last_probe EXCEPT ![e] = {[config |-> args.origin, response |-> response]}]
  /\ repeated' =
       IF ~Skipped(response.count) /\ last_probe'[e] = last_probe[e]
       THEN [repeated EXCEPT !.get_pages = @ \cup {e}] ELSE repeated
  /\ get_pages_tasks' = [get_pages_tasks EXCEPT ![e] = "done"]
  /\ UNCHANGED << data_extensions, pc, args, runs, pipeline_tasks, committed,
                  last_listing >>

\* a unit of pool.starmap(get_pages, ...) of line 386; its return value is
\* dropped by populate
GetPages(e, response) ==
  /\ pc = "starmap_get_pages"
  /\ Len(data_extension_pages) + Len(ScheduledPages(args.origin, e, response)) <= MaxPages
  /\ GetPagesUnit(e, response)
  /\ UNCHANGED other_vars

\* the token, the probe request or the shape of its response raises: the
\* except clause of line 171 logs and get_pages returns
GetPagesUnitRaises(e) ==
  /\ pc = "starmap_get_pages"
  /\ e \in DOMAIN get_pages_tasks
  /\ get_pages_tasks[e] = "pending"
  /\ get_pages_tasks' = [get_pages_tasks EXCEPT ![e] = "done"]
  /\ UNCHANGED << data_extensions, data_extension_pages, pc, args, runs,
                  pipeline_tasks, committed, attempts, last_listing, last_probe, repeated >>

GetPagesRaises(e) ==
  /\ GetPagesUnitRaises(e)
  /\ UNCHANGED other_vars

\* -------------------------------------------------------- populate: pipeline
\* Pipeline(get_page_items_and_append_target_data, create_page_items)
Funcs == << "get_page_items_and_append_target_data", "create_page_items" >>

\* Pipeline.__call__, line 44: `if state is not None`
PipelineCallsAlways(state) == TRUE

PipelineCalls(state) == state # "None"

\* pool.starmap(get_pages, ...) has returned: every unit is finished
GetPagesJoinedEarly(tasks) == TRUE

GetPagesJoined(tasks) == \A e \in DOMAIN tasks : tasks[e] = "done"

\* filter_by(status='new') of lines 403-407
StatusFilterNone(page) == TRUE

StatusFilter(page) == page.status = "new"

\* lines 409-412: the update_only restriction of the working set
UpdateOnlyFilterNone(page, update_only) == TRUE

UpdateOnlyFilter(page, update_only) == update_only => page.has_sfmc_key

\* lines 403-412: the ids of the pages handed to the pipeline
WorkingSet(pages, entries, update_only) ==
  { p \in 1..Len(pages) :
      /\ StatusFilter(pages[p])
      /\ pages[p].data_extension_id \in 1..Len(entries)
      /\ UpdateOnlyFilter(pages[p], update_only) }

StartUnit == [i |-> 1, state |-> "args", log |-> << >>]

\* lines 396-427: starmap(get_pages) has returned; the working set is read
\* and handed to the pool
StartPipeline ==
  /\ pc = "starmap_get_pages"
  /\ GetPagesJoined(get_pages_tasks)
  /\ LET data_extension_pages_ ==
           WorkingSet(data_extension_pages, data_extensions, args.update_only)
     IN IF data_extension_pages_ = {}
        THEN /\ Leave("returned")
             /\ UNCHANGED << other_vars, data_extensions, data_extension_pages, runs,
                             attempts, last_listing, last_probe >>
        ELSE /\ pipeline_tasks' = [p \in data_extension_pages_ |-> StartUnit]
             /\ pc' = "starmap_pipeline"
             /\ UNCHANGED << other_vars, data_extensions, data_extension_pages, args, runs,
                             get_pages_tasks, committed, attempts, last_listing,
                             last_probe, repeated >>

\* the unit of page p stands before funcs[i] named func, and calls it
Calls(p, func) ==
  /\ pc = "starmap_pipeline"
  /\ p \in DOMAIN pipeline_tasks
  /\ pipeline_tasks[p].i <= Len(Funcs)
  /\ Funcs[pipeline_tasks[p].i] = func
  /\ PipelineCalls(pipeline_tasks[p].state)

\* the unit's record after funcs[i] returned state, with what it did logged
Returned(p, state, entry) ==
  [pipeline_tasks EXCEPT ![p] =
     [ i |-> pipeline_tasks[p].i + 1,
       state |-> state,
       log |-> Append(pipeline_tasks[p].log, entry) ]]

\* the except clause of lines 186-193
FetchFailed(page) == [page EXCEPT !.status = "failed"]

\* the update of lines 214-216 and 225-227
PushedStatusOnly(page, request_id) == [page EXCEPT !.status = "processed"]

PushedKeyless(page, request_id) ==
  [page EXCEPT !.request_id = request_id, !.status = "processed",
               !.has_sfmc_key = FALSE]

Pushed(page, request_id) ==
  [page EXCEPT !.request_id = request_id, !.status = "processed"]

\* the except clause of lines 230-238
PushFailedKeepsStatus(page) == page

PushFailed(page) == [page EXCEPT !.status = "failed"]

\* get_page_items_and_append_target_data(page, origin, target): ok tells
\* whether the token, the request and the shape of the response were fine
GetPageItemsAndAppendTargetData(p, ok) ==
  /\ Calls(p, "get_page_items_and_append_target_data")
  /\ attempts' = [attempts EXCEPT ![p].fetch = @ + 1]
  /\ IF ok
     THEN /\ pipeline_tasks' = Returned(p, "fetched", [func |-> "fetch", ok |-> TRUE])
          /\ UNCHANGED data_extension_pages
     ELSE /\ pipeline_tasks' = Returned(p, "None", [func |-> "fetch", ok |-> FALSE])
          /\ data_extension_pages' =
               [data_extension_pages EXCEPT ![p] = FetchFailed(@)]
  /\ UNCHANGED << other_vars, data_extensions, pc, args, runs, get_pages_tasks, committed,
                  last_listing, last_probe, repeated >>

\* create_page_items(page, items, target): response is the requestId of the
\* write endpoint's answer, or "raise" when the token, the request or the
\* shape of the answer raises
CreatePageItems(p, response) ==
  /\ Calls(p, "create_page_items")
  /\ attempts' = [attempts EXCEPT ![p].push = @ + 1]
  /\ IF response # "raise"
     THEN /\ pipeline_tasks' = Returned(p, "0", [func |-> "push", ok |-> TRUE])
          /\ data_extension_pages' =
               [data_extension_pages EXCEPT ![p] = Pushed(@, response)]
     ELSE /\ pipeline_tasks' = Returned(p, "None", [func |-> "push", ok |-> FALSE])
          /\ data_extension_pages' =
               [data_extension_pages EXCEPT ![p] = PushFailed(@)]
  /\ UNCHANGED << other_vars, data_extensions, pc, args, runs, get_pages_tasks, committed,
                  last_listing, last_probe, repeated >>

\* Pipeline.__call__ with state None: funcs[i] is passed over
PipelineSkip(p) ==
  /\ pc = "starmap_pipeline"
  /\ p \in DOMAIN pipeline_tasks
  /\ pipeline_tasks[p].i <= Len(Funcs)
  /\ ~PipelineCalls(pipeline_tasks[p].state)
  /\ pipeline_tasks' = [pipeline_tasks EXCEPT ![p].i = @ + 1]
  /\ UNCHANGED << other_vars, data_extensions, data_extension_pages, pc, args, runs,
                  get_pages_tasks, committed, attempts, last_listing, last_probe, repeated >>

\* pool.starmap(pipeline, ...) has returned: every unit is finished
PipelineJoined(tasks) == \A p \in DOMAIN tasks : tasks[p].i > Len(Funcs)

\* lines 427-431: the pool is joined and populate returns 0
EndPopulate ==
  /\ pc = "starmap_pipeline"
  /\ PipelineJoined(pipeline_tasks)
  /\ Leave("returned")
  /\ UNCHANGED << other_vars, data_extensions, data_extension_pages, runs, attempts,
                  last_listing, last_probe >>

\* ------------------------------------------------------------ specification
\* populate is called with two different environments, one call after another
Next ==
  \/ \E origin \in Configs :
       \E target \in Configs \ {origin}, update_only \in BOOLEAN :
         Populate(origin, target, update_only)
  \/ \E response \in OriginListings :
       GetDataExtensionsWithOriginInfo(response)
  \/ GetDataExtensionsWithOriginInfoRaises
  \/ \E response \in TargetListings :
       UpdateDataExtensionsTargetInfo(response)
  \/ UpdateDataExtensionsTargetInfoRaises
  \/ StartGetPages
  \/ \E e \in DOMAIN get_pages_tasks, response \in ProbeResponses :
       GetPages(e, response)
  \/ \E e \in DOMAIN get_pages_tasks : GetPagesRaises(e)
  \/ StartPipeline
  \/ \E p \in DOMAIN pipeline_tasks, ok \in BOOLEAN :
       GetPageItemsAndAppendTargetData(p, ok)
  \/ \E p \in DOMAIN pipeline_tasks, response \in RequestIds \cup {"raise"} :
       CreatePageItems(p, response)
  \/ \E p \in DOMAIN pipeline_tasks : PipelineSkip(p)
  \/ EndPopulate

Spec == Init /\ [][Next]_vars

\* ------------------------------------------------------- get_pages: one call
\* sample rows around the thresholds of get_dynamic_size
CallSamples ==
  { [size |-> s, values |-> v, keys |-> k] :
      s \in {1200, 1500, 1501, 1800, 2000, 3000, 3001, 3500},
      v \in {10, 20, 21, 25},
      k \in {0, 1} }

\* row counts around the page sizes and the skip limit
CallCounts == {1, 500, 501, 2500, 2501, 12000, MaxCount + 1}

\* the largest count scheduled, with a sample of the largest page size
CallResponses ==
  { NoResponse, [count |-> MaxCount, sample |-> [size |-> 1200, values |-> 10, keys |-> 1]] }
  \cup { [count |-> c, sample |-> s] : c \in CallCounts, s \in CallSamples }

\* the catalog row populate(e1, e2) holds after both listings named "a"
LinkedEntry ==
  [ DataExtension("a", KeyTable["e1"]["a"], "e1")
      EXCEPT !.target_external_key = KeyTable["e2"]["a"],
             !.target_instance = "e2" ]

CallOrigin == [name |-> "e1", subdomain |-> "s1"]

CallTarget == [name |-> "e2", subdomain |-> "s2"]

\* populate has handed the one eligible entry of a fresh store to the pool;
\* the probe of its get_pages call will be answered by some response
InitGetPages ==
  /\ data_extensions = << LinkedEntry >>
  /\ data_extension_pages = << >>
  /\ pc = "starmap_get_pages"
  /\ args = [origin |-> CallOrigin, target |-> CallTarget, update_only |-> FALSE]
  /\ runs = 1
  /\ get_pages_tasks = [e \in {1} |-> "pending"]
  /\ pipeline_tasks = NoTasks
  /\ committed = {"origin_info", "target_info"}
  /\ attempts = << >>
  /\ last_listing =
       {[config |-> CallOrigin,
         response |-> << [name |-> "a", external_key |-> KeyTable["e1"]["a"]] >>]}
  /\ last_probe = << {} >>
  /\ repeated = NoRepeat
  /\ \E response \in CallResponses :
       get_pages_call = [NoCall EXCEPT !.state = "called", !.response = response]
  /\ ReportUnused
  /\ TokensUnused

\* get_pages(data_extension, config) runs to its end, lines 133-170
GetPagesReturns ==
  /\ get_pages_call.state = "called"
  /\ GetPagesUnit(1, get_pages_call.response)
  /\ UNCHANGED << report_vars, token_vars >>
  /\ get_pages_call' =
       [get_pages_call EXCEPT
          !.state = "returned",
          !.page_size = IF Skipped(get_pages_call.response.count) THEN {}
                        ELSE {get_dynamic_size(get_pages_call.response.sample)},
          !.ret = GetPagesReturn(get_pages_call.response)]

\* get_pages(data_extension, config) ends in its except clause, lines 171-174
GetPagesExcepts ==
  /\ get_pages_call.state = "called"
  /\ GetPagesUnitRaises(1)
  /\ UNCHANGED << report_vars, token_vars >>
  /\ get_pages_call' = [get_pages_call EXCEPT !.state = "excepted", !.ret = {}]

NextGetPages ==
  \/ GetPagesReturns
  \/ GetPagesExcepts

SpecGetPages == InitGetPages /\ [][NextGetPages]_vars

\* --------------------------------------------------------------------- report
\* entries of result['errors']; the last one lacks its 'name'
FieldErrors ==
  { [name |-> n, errorCode |-> "x", errorMessage |-> "m"] : n \in {"f1", "f2"} }
  \cup { [name |-> Missing, errorCode |-> "x", errorMessage |-> "m"] }

\* items of response['items']: a row written, a failed row with another
\* message, an item that lacks its 'status', a failed row of error code "c2",
\* and the failed rows of error code "c1" with every list of errors
Results ==
  { [status |-> "OK", errorCode |-> Missing, message |-> Missing, errors |-> << >>],
    [status |-> "Error", errorCode |-> "c1", message |-> "Other", errors |-> << >>],
    [status |-> Missing, errorCode |-> Missing, message |-> Missing, errors |-> << >>],
    [status |-> "Error", errorCode |-> "c2", message |-> "Errors Occurred",
     errors |-> << [name |-> "f1", errorCode |-> "x", errorMessage |-> "m"] >>] }
  \cup { [status |-> "Error", errorCode |-> "c1", message |-> "Errors Occurred",
          errors |-> es] : es \in SeqsUpTo(FieldErrors, MaxErrors) }

\* response['items'] of the results of one page
ResultLists == SeqsUpTo(Results, MaxResults)

\* lines 331-337
NewReportError(error) ==
  [ name |-> error.name,
    error_message |-> error.errorMessage,
    unique |-> 0,
    count |-> 0 ]

\* line 341: `page_record_error_unique_key not in page_record_unique_errors`
UnseenAlways(page_record_error_unique_key, page_record_unique_errors) == TRUE

Unseen(page_record_error_unique_key, page_record_unique_errors) ==
  page_record_error_unique_key \notin page_record_unique_errors

\* the loop of lines 325-349 from entry k of result['errors'] on: the errors
\* dict of the report afterwards, and whether an entry raised
RECURSIVE ReportErrors(_, _, _, _, _)
ReportErrors(errors, result_errors, k, page_record_error_unique_key, page_record_unique_errors) ==
  IF k > Len(result_errors) THEN [errors |-> errors, raised |-> FALSE]
  ELSE LET error == result_errors[k] IN
       IF error.name = Missing THEN [errors |-> errors, raised |-> TRUE]
       ELSE LET report_error_key == << error.name, error.errorCode >>
                report_error == IF report_error_key \in DOMAIN errors
                                THEN errors[report_error_key]
                                ELSE NewReportError(error)
                first == Unseen(page_record_error_unique_key,
                                page_record_unique_errors)
                counted == [report_error EXCEPT
                              !.unique = IF first THEN @ + 1 ELSE @,
                              !.count = @ + 1]
            IN ReportErrors((report_error_key :> counted) @@ errors,
                            result_errors, k + 1, page_record_error_unique_key,
                            IF first
                            THEN page_record_unique_errors
                                   \cup {page_record_error_unique_key}
                            ELSE page_record_unique_errors)

\* lines 310-351 for one item: the reports dict afterwards, and whether the
\* item raised. A report found in reports is changed in place, so what the
\* loop did before it raised stays; a report created at line 319 is in reports
\* only once line 351 is reached.
ReportResult(reports_, page_id, index, result) ==
  IF result.status = Missing THEN [reports |-> reports_, raised |-> TRUE]
  ELSE IF result.status # "Error" THEN [reports |-> reports_, raised |-> FALSE]
  ELSE LET found == result.errorCode \in DOMAIN reports_
           report == IF found THEN reports_[result.errorCode]
                     ELSE [data_extension |-> "a", errors |-> << >>]
       IN IF result.message # "Errors Occurred"
          THEN [reports |-> (result.errorCode :> report) @@ reports_,
                raised |-> FALSE]
          ELSE LET loop == ReportErrors(report.errors, result.errors, 1,
                                        << page_id, index >>, {})
                   report_ == [report EXCEPT !.errors = loop.errors]
               IN IF loop.raised /\ ~found
                  THEN [reports |-> reports_, raised |-> TRUE]
                  ELSE [reports |-> (result.errorCode :> report_) @@ reports_,
                        raised |-> loop.raised]

\* the loop of line 309 from enumerate index `index` on
RECURSIVE ReportResults(_, _, _, _)
ReportResults(reports_, page_id, results, index) ==
  IF index >= Len(results) THEN [reports |-> reports_, raised |-> FALSE]
  ELSE LET item == ReportResult(reports_, page_id, index, results[index + 1]) IN
       IF item.raised THEN item
       ELSE ReportResults(item.reports, page_id, results, index + 1)

\* the rows of line 288-292: the pages of entry id, by page id
EntryPages(id) ==
  SelectSeq([p \in 1..Len(data_extension_pages) |-> p],
            LAMBDA p : data_extension_pages[p].data_extension_id = id)

\* a store whose one entry has n pages, each pushed to the target
ReportedPages(n) ==
  [ k \in 1..n |->
      Pushed(DataExtensionPage(PageUrl(CallOrigin, LinkedEntry, 2500, k), 1, TRUE),
             "r1") ]

\* generate_report_for_data_extension(data_extension, target) is called for
\* the entry, lines 285-293
InitReport ==
  /\ \E n \in 0..MaxReportPages :
       /\ data_extension_pages = ReportedPages(n)
       /\ attempts = [k \in 1..n |-> [fetch |-> 1, push |-> 1]]
  /\ data_extensions = << LinkedEntry >>
  /\ pc = "returned"
  /\ args = NoArgs
  /\ runs = 1
  /\ get_pages_tasks = NoTasks
  /\ pipeline_tasks = NoTasks
  /\ committed = {}
  /\ last_listing =
       {[config |-> CallOrigin,
         response |-> << [name |-> "a", external_key |-> KeyTable["e1"]["a"]] >>]}
  /\ last_probe = << {} >>
  /\ repeated = NoRepeat
  /\ get_pages_call = NoCall
  /\ reports = << >>
  /\ report_call = [NoReportCall EXCEPT !.state = "called",
                                        !.pages = EntryPages(1), !.page = 1]
  /\ TokensUnused

\* one iteration of the loop of line 297 whose request is answered with
\* results: lines 298-351, and the except clause of line 353 if an item raises
GenerateReportPage(results) ==
  /\ report_call.state = "called"
  /\ report_call.page <= Len(report_call.pages)
  /\ LET page == ReportResults(reports, report_call.pages[report_call.page],
                               results, 0)
     IN /\ reports' = page.reports
        /\ report_call' =
             [report_call EXCEPT
                !.page = @ + 1,
                !.read = Append(@, [results |-> results, raised |-> page.raised])]
  /\ UNCHANGED << populate_vars, get_pages_call, token_vars >>

\* one iteration whose token, request or response['items'] raises: the except
\* clause of line 353 logs and the loop goes on
GenerateReportPageRaises ==
  /\ report_call.state = "called"
  /\ report_call.page <= Len(report_call.pages)
  /\ report_call' =
       [report_call EXCEPT
          !.page = @ + 1,
          !.read = Append(@, [results |-> << >>, raised |-> TRUE])]
  /\ UNCHANGED << populate_vars, get_pages_call, token_vars, reports >>

\* return {} of line 295 or return reports of line 358
ReturnReports ==
  /\ report_call.state = "called"
  /\ report_call.page > Len(report_call.pages)
  /\ report_call' = [report_call EXCEPT !.state = "returned"]
  /\ UNCHANGED << populate_vars, get_pages_call, token_vars, reports >>

NextReport ==
  \/ \E results \in ResultLists : GenerateReportPage(results)
  \/ GenerateReportPageRaises
  \/ ReturnReports

SpecReport == InitReport /\ [][NextReport]_vars

\* --------------------------------------------------------------------- tokens
\* line 53: `token and current_timestamp < token['expires_at_timestamp']`
CacheHitInclusive(token, current_timestamp) ==
  \E t \in token : current_timestamp <= t.expires_at_timestamp

CacheHit(token, current_timestamp) ==
  \E t \in token : current_timestamp < t.expires_at_timestamp

\* the dict of lines 66-69, time.time() being timestamp
TokenEntryUndated(response, timestamp) ==
  [ access_token |-> response.access_token,
    expires_at_timestamp |-> CHOOSE d \in response.expires_in : TRUE ]

TokenEntry(response, timestamp) ==
  [ access_token |-> response.access_token,
    expires_at_timestamp |-> timestamp + (CHOOSE d \in response.expires_in : TRUE) ]

\* response['access_token'] or response['expires_in'] raises KeyError
LacksField(response) ==
  response.access_token = Missing \/ response.expires_in = {}

\* the except clause of lines 72-75 formats config.name; config is a dict, so
\* the clause raises AttributeError and get_access_token does not return
ExceptClauseRaises == "raised"

\* get_access_token(config) is called in process w: lines 50-54, and up to
\* the request of line 63 when the cache does not answer
GetAccessToken(w, config) ==
  /\ token_calls[w].state # "exchange"
  /\ token_requests < MaxTokenRequests
  /\ token_requests' = token_requests + 1
  /\ LET token == TOKENS[w][config.name]
         current_timestamp == now
         racing == { v \in Workers \ {w} :
                       /\ token_calls[v].state = "exchange"
                       /\ token_calls[v].name = config.name }
     IN IF CacheHit(token, current_timestamp)
        THEN token_calls' =
               [token_calls EXCEPT ![w] =
                  [NoTokenCall EXCEPT !.state = "returned",
                                      !.request = token_requests + 1,
                                      !.name = config.name,
                                      !.ret = { t.access_token : t \in token }]]
        ELSE token_calls' =
               [v \in Workers |->
                  IF v = w
                  THEN [NoTokenCall EXCEPT !.state = "exchange",
                                           !.request = token_requests + 1,
                                           !.name = config.name,
                                           !.exchanges = 1,
                                           !.raced = (racing # {})]
                  ELSE IF v \in racing THEN [token_calls[v] EXCEPT !.raced = TRUE]
                  ELSE token_calls[v]]
  /\ UNCHANGED << populate_vars, get_pages_call, report_vars, TOKENS, now >>

\* the token endpoint answers with a body: lines 63-71, a KeyError of line 67
\* or 68 leaving get_access_token before TOKENS is assigned
PostReturns(w, response) ==
  /\ token_calls[w].state = "exchange"
  /\ IF LacksField(response)
     THEN /\ token_calls' = [token_calls EXCEPT ![w].state = "raised",
                                                ![w].response = response,
                                                ![w].at = now]
          /\ UNCHANGED TOKENS
     ELSE /\ TOKENS' = [TOKENS EXCEPT ![w][token_calls[w].name] =
                                        {TokenEntry(response, now)}]
          /\ token_calls' = [token_calls EXCEPT ![w].state = "returned",
                                                ![w].response = response,
                                                ![w].at = now,
                                                ![w].ret = {response.access_token}]
  /\ UNCHANGED << populate_vars, get_pages_call, report_vars, now, token_requests >>

\* requests.post(...).json() raises a RequestException: lines 72-75
PostRaises(w) ==
  /\ token_calls[w].state = "exchange"
  /\ token_calls' = [token_calls EXCEPT ![w].state = ExceptClauseRaises,
                                        ![w].at = now]
  /\ UNCHANGED << populate_vars, get_pages_call, report_vars, TOKENS, now,
                  token_requests >>

\* time passes
Tick ==
  /\ now < MaxTime
  /\ now' = now + 1
  /\ UNCHANGED << populate_vars, get_pages_call, report_vars, TOKENS, token_calls,
                  token_requests >>

NextTokens ==
  \/ \E w \in Workers, config \in Configs : GetAccessToken(w, config)
  \/ \E w \in Workers, response \in TokenResponses : PostReturns(w, response)
  \/ \E w \in Workers : PostRaises(w)
  \/ Tick

SpecTokens == Init /\ [][NextTokens]_vars

\* ------------------------------------------------------------------ claims
Pages == 1..Len(data_extension_pages)

Entries == 1..Len(data_extensions)

\* the unit of page p has gone through every function of the pipeline
Finished(p) == pipeline_tasks[p].i > Len(Funcs)

\* the log of the unit of page p holds a call of func that ended ok / not ok
Logged(p, func, ok) ==
  \E k \in 1..Len(pipeline_tasks[p].log) :
    pipeline_tasks[p].log[k] = [func |-> func, ok |-> ok]

FetchFailedIn(p) == Logged(p, "fetch", FALSE)

PushCalledIn(p) == Logged(p, "push", TRUE) \/ Logged(p, "push", FALSE)

\* C1: a page whose fetch stage fails in a run never has the push stage
\* invoked for it in that run, and its persisted status is "failed"; over all
\* runs, a page that was fetched and never pushed, and is not between the two
\* stages right now, has status "failed".
C1_FetchFailureStopsPage ==
  /\ \A p \in DOMAIN pipeline_tasks :
       FetchFailedIn(p) =>
         /\ ~PushCalledIn(p)
         /\ data_extension_pages[p].status = "failed"
  /\ \A p \in Pages :
       ( /\ attempts[p].fetch > 0
         /\ attempts[p].push = 0
         /\ ~(p \in DOMAIN pipeline_tasks /\ pipeline_tasks[p].state = "fetched") )
       => data_extension_pages[p].status = "failed"

\* a finished unit whose fetch failed, beside a unit of the same run that pushed
C1_Witness ==
  \E p, q \in DOMAIN pipeline_tasks :
    /\ Finished(p) /\ FetchFailedIn(p)
    /\ data_extension_pages[p].status = "failed"
    /\ Logged(q, "push", TRUE)

\* C2: a page has a request_id exactly when its status is "processed".
C2_RequestIdIffProcessed ==
  \A p \in Pages :
    (data_extension_pages[p].request_id # NULL)
      <=> (data_extension_pages[p].status = "processed")

\* a processed page, a page whose push failed, a page whose fetch failed
C2_Witness ==
  \E p, q, r \in Pages :
    /\ data_extension_pages[p].status = "processed"
    /\ data_extension_pages[p].request_id \in RequestIds
    /\ data_extension_pages[q].status = "failed" /\ attempts[q].push = 1
    /\ data_extension_pages[r].status = "failed" /\ attempts[r].push = 0

\* C3: a stage is invoked for a page only while the page's status is "new",
\* a finished unit leaves the status "processed" or "failed", no step sets a
\* status that left "new" back to "new", and every page is fetched at most
\* once and pushed at most once over all runs.
C3_StateInv ==
  /\ \A p \in DOMAIN pipeline_tasks :
       Finished(p) => data_extension_pages[p].status \in {"processed", "failed"}
  /\ \A p \in Pages : attempts[p].fetch <= 1 /\ attempts[p].push <= 1

C3_Step ==
  \A p \in Pages :
    /\ attempts'[p] # attempts[p] => data_extension_pages[p].status = "new"
    /\ data_extension_pages[p].status # "new"
         => data_extension_pages'[p].status = data_extension_pages[p].status

C3_AttemptedOnceWhileNew == []C3_StateInv /\ [][C3_Step]_vars

\* a later run transfers a page while a page that failed earlier is left out
C3_Witness ==
  /\ pc = "starmap_pipeline"
  /\ \E p \in Pages, q \in DOMAIN pipeline_tasks :
       /\ p \notin DOMAIN pipeline_tasks
       /\ data_extension_pages[p].status = "failed"
       /\ attempts[p].fetch = 1
       /\ attempts[q].fetch = 1

\* C4: the working set of the transfer phase is the pages with status "new"
\* (and has_sfmc_key under update_only), and when the phase ends every page
\* of the working set has status "processed" or "failed".
C4_Step ==
  /\ (pc = "starmap_get_pages" /\ pc' = "starmap_pipeline") =>
       DOMAIN pipeline_tasks' =
         { p \in Pages : /\ data_extension_pages[p].status = "new"
                         /\ args.update_only => data_extension_pages[p].has_sfmc_key }
  /\ (pc = "starmap_pipeline" /\ pc' # "starmap_pipeline") =>
       \A p \in DOMAIN pipeline_tasks :
         data_extension_pages'[p].status \in {"processed", "failed"}

C4_EveryPageSettled == [][C4_Step]_vars

\* the phase is about to end with a page failed in each stage and one processed
C4_Witness ==
  /\ pc = "starmap_pipeline"
  /\ \A p \in DOMAIN pipeline_tasks : Finished(p)
  /\ \E p, q, r \in DOMAIN pipeline_tasks :
       /\ FetchFailedIn(p)
       /\ Logged(q, "push", FALSE)
       /\ Logged(r, "push", TRUE) /\ data_extension_pages[r].status = "processed"

\* C5: a get_pages unit exists only after both catalog operations of the run
\* have committed, and a pipeline unit exists only when every get_pages unit
\* of the run is finished.
C5_Barriers ==
  /\ get_pages_tasks # NoTasks => {"origin_info", "target_info"} \subseteq committed
  /\ pipeline_tasks # NoTasks =>
       /\ {"origin_info", "target_info"} \subseteq committed
       /\ \A e \in DOMAIN get_pages_tasks : get_pages_tasks[e] = "done"

\* two get_pages units are finished and a page of the run has been fetched
C5_Witness ==
  /\ Cardinality(DOMAIN get_pages_tasks) >= 2
  /\ \E p \in DOMAIN pipeline_tasks : pipeline_tasks[p].log # << >>

\* C6: a get_pages unit that runs with the origin and the probe response of
\* the entry's last completed scheduling leaves the page table as it is.
C6_Step ==
  \A e \in Entries :
    (e \in repeated'.get_pages /\ e \notin repeated.get_pages)
      => data_extension_pages' = data_extension_pages

C6_GetPagesIdempotent == [][C6_Step]_vars

\* an entry was scheduled again on the same probe after its pages were settled
C6_Witness ==
  /\ pc = "starmap_get_pages"
  /\ \E e \in repeated.get_pages :
       \E p \in Pages :
         /\ data_extension_pages[p].data_extension_id = e
         /\ data_extension_pages[p].status # "new"

\* C7: a discovery that runs with the origin and the listing of the last
\* committed discovery leaves the DataExtension table as it is.
C7_Step ==
  (repeated'.origin_info /\ ~repeated.origin_info)
    => data_extensions' = data_extensions

C7_DiscoverOriginIdempotent == [][C7_Step]_vars

\* a discovery was repeated on a listing that had created rows
C7_Witness ==
  /\ repeated.origin_info
  /\ \E l \in last_listing :
       /\ Len(l.response) > 0
       /\ \E e \in Entries : data_extensions[e].origin_instance = l.config.name

\* C8: no two rows of the DataExtension table share (name, origin_instance).
C8_UniqueNameAndOrigin ==
  \A e, f \in Entries :
    ( /\ data_extensions[e].name = data_extensions[f].name
      /\ data_extensions[e].origin_instance = data_extensions[f].origin_instance )
    => e = f

\* C9: an entry whose target_instance is null has no get_pages unit and no
\* page (so nothing of it is fetched or pushed).
C9_UnlinkedEntryExcluded ==
  \A e \in Entries :
    data_extensions[e].target_instance = NULL =>
      /\ e \notin DOMAIN get_pages_tasks
      /\ \A p \in Pages : data_extension_pages[p].data_extension_id # e

\* an unlinked entry stands beside a linked one whose page is transferred
C9_Witness ==
  /\ \E e \in Entries : data_extensions[e].target_instance = NULL
  /\ \E p \in DOMAIN pipeline_tasks : Logged(p, "push", TRUE)

\* C10: in a run with update_only, no page without has_sfmc_key is in the
\* working set, and no step changes such a page or invokes a stage for it.
C10_StateInv ==
  args.update_only =>
    \A p \in DOMAIN pipeline_tasks : data_extension_pages[p].has_sfmc_key

C10_Step ==
  args.update_only =>
    \A p \in Pages :
      ~data_extension_pages[p].has_sfmc_key =>
        /\ data_extension_pages'[p] = data_extension_pages[p]
        /\ attempts'[p] = attempts[p]

C10_UpdateOnlyExcludesKeyless == []C10_StateInv /\ [][C10_Step]_vars

\* an update_only run has processed a keyed page and left a keyless one new
C10_Witness ==
  /\ args.update_only
  /\ \E p \in DOMAIN pipeline_tasks, q \in Pages :
       /\ data_extension_pages[p].status = "processed"
       /\ ~data_extension_pages[q].has_sfmc_key
       /\ data_extension_pages[q].status = "new"
       /\ q \notin DOMAIN pipeline_tasks

\* the get_pages call under observation ran to its end on a positive count
\* within the limit
Scheduled ==
  /\ get_pages_call.state = "returned"
  /\ ~Skipped(get_pages_call.response.count)

\* C11: the page size is defined for every (byte size, field count) and the
\* first matching rule wins: size > 3000 gives 100, else size > 1500 gives
\* 500, else more than 20 fields give 1000, else 2500; a size of exactly 3000
\* or 1500 and a field count of exactly 20 fall to the next rule.
C11_PageSizeRules ==
  Scheduled =>
    LET size == get_pages_call.response.sample.size
        fields == get_pages_call.response.sample.values
        page_size == get_pages_call.page_size
    IN /\ page_size \in {{100}, {500}, {1000}, {2500}}
       /\ size > 3000 => page_size = {100}
       /\ size <= 3000 /\ size > 1500 => page_size = {500}
       /\ size <= 1500 /\ fields > 20 => page_size = {1000}
       /\ size <= 1500 /\ fields <= 20 => page_size = {2500}
       /\ size = 3000 => page_size = {500}
       /\ size = 1500 /\ fields = 21 => page_size = {1000}
       /\ size = 1500 /\ fields = 20 => page_size = {2500}
       /\ size = 3500 => page_size = {100}
       /\ size = 2000 => page_size = {500}
       /\ size = 1200 /\ fields = 25 => page_size = {1000}
       /\ size = 1200 /\ fields = 10 => page_size = {2500}

C11_Witness ==
  /\ Scheduled
  /\ get_pages_call.response.sample.size = 3000
  /\ get_pages_call.response.sample.values = 25
  /\ get_pages_call.page_size = {500}

\* C12: on a store without pages of the entry, get_pages for a count c within
\* the limit and page size s persists exactly ceil(c / s) rows, one for each
\* page index 1..ceil(c / s), each new, with s in its URL and the same
\* has_sfmc_key; 12,000 rows with an 1800-byte sample give 24 rows of size 500.
C12_FirstRunPersistsCeil ==
  Scheduled =>
    LET c == get_pages_call.response.count
        sample == get_pages_call.response.sample
        n == Len(data_extension_pages)
    IN /\ \E s \in get_pages_call.page_size :
            /\ n * s >= c
            /\ (n - 1) * s < c
            /\ \A k \in 1..n :
                 /\ data_extension_pages[k].url.page = k
                 /\ data_extension_pages[k].url.pageSize = s
                 /\ data_extension_pages[k].status = "new"
                 /\ data_extension_pages[k].data_extension_id = 1
                 /\ data_extension_pages[k].has_sfmc_key = (sample.keys > 0)
       /\ c = 12000 /\ sample.size = 1800 =>
            /\ n = 24
            /\ \A k \in 1..n : data_extension_pages[k].url.pageSize = 500

C12_Witness ==
  /\ Scheduled
  /\ get_pages_call.response.count = 12000
  /\ get_pages_call.response.sample.size = 1800
  /\ Len(data_extension_pages) = 24
  /\ data_extension_pages[24].url.page = 24

\* C13: get_pages persists no page and returns 0 when the probed count is
\* above 5,000,000 or is 0, and for every count from 1 to 5,000,000 it
\* schedules pages and returns the count.
C13_ReturnsCount ==
  get_pages_call.state = "returned" =>
    LET c == get_pages_call.response.count IN
      /\ c > 5000000 \/ c = 0 =>
           /\ data_extension_pages = << >>
           /\ get_pages_call.ret = {0}
      /\ c >= 1 /\ c <= 5000000 =>
           /\ data_extension_pages # << >>
           /\ get_pages_call.ret = {c}

\* no page read so far ended in the except clause
NoPageRaised ==
  \A p \in 1..Len(report_call.read) : ~report_call.read[p].raised

\* the keys f"{error['name']}:{error['errorCode']}" of well-formed entries
ReportErrorKeys ==
  { << error.name, error.errorCode >> : error \in { e \in FieldErrors : e.name # Missing } }

\* the error occurrences read so far under error code c and key k: page id,
\* row index and position in the row's errors
Occurrences(c, k) ==
  UNION { UNION { { << report_call.pages[p], i - 1, j >> :
                      j \in { j \in 1..Len(report_call.read[p].results[i].errors) :
                                LET result == report_call.read[p].results[i]
                                    error == result.errors[j]
                                IN /\ result.status = "Error"
                                   /\ result.errorCode = c
                                   /\ result.message = "Errors Occurred"
                                   /\ << error.name, error.errorCode >> = k } } :
                  i \in 1..Len(report_call.read[p].results) } :
          p \in 1..Len(report_call.read) }

\* the (page, row-index) rows of a set of occurrences
Rows(occurrences) == { << o[1], o[2] >> : o \in occurrences }

\* the counts of a reports dict: one record per error code and key
Counted(reports_) ==
  UNION { { [errorCode |-> c, key |-> k,
             unique |-> reports_[c].errors[k].unique,
             count |-> reports_[c].errors[k].count] :
              k \in DOMAIN reports_[c].errors } :
          c \in DOMAIN reports_ }

\* C14: two error occurrences with the same key on one (page, row-index) give
\* that key unique 1 and count 2; two occurrences with the same key on two
\* row-indices of one page give it unique 2 and count 2.
C14_SameRowOnceDistinctRowsTwice ==
  NoPageRaised =>
    \A c \in {"c1", "c2"}, k \in ReportErrorKeys :
      LET occurrences == Occurrences(c, k)
          rows == Rows(occurrences)
      IN Cardinality(occurrences) = 2 /\ Cardinality({ r[1] : r \in rows }) = 1 =>
           /\ c \in DOMAIN reports
           /\ k \in DOMAIN reports[c].errors
           /\ reports[c].errors[k].count = 2
           /\ Cardinality(rows) = 1 => reports[c].errors[k].unique = 1
           /\ Cardinality(rows) = 2 => reports[c].errors[k].unique = 2

\* C15: every reported error has unique equal to the number of distinct
\* (page, row-index) rows that reported its key and count equal to the number
\* of occurrences of its key, so 1 <= unique <= count, also when one row
\* carries errors on several fields.
C15_UniqueCountsRows ==
  NoPageRaised =>
    \A c \in DOMAIN reports :
      \A k \in DOMAIN reports[c].errors :
        LET report_error == reports[c].errors[k]
            occurrences == Occurrences(c, k)
        IN /\ report_error.unique = Cardinality(Rows(occurrences))
           /\ report_error.count = Cardinality(occurrences)
           /\ 1 <= report_error.unique
           /\ report_error.unique <= report_error.count

\* the reports dict after the first k pages read had the pages that raised
\* not been among the entry's pages
RECURSIVE ReportsWithoutRaised(_)
ReportsWithoutRaised(k) ==
  IF k = 0 THEN << >>
  ELSE IF report_call.read[k].raised THEN ReportsWithoutRaised(k - 1)
  ELSE ReportResults(ReportsWithoutRaised(k - 1), report_call.pages[k],
                     report_call.read[k].results, 0).reports

\* C16: a page whose results raise at any point, an item part-way through
\* the list included, adds nothing to any unique or count, and every other
\* page of the entry is aggregated.
C16_RaisedPageAddsNothing ==
  /\ Counted(reports) = Counted(ReportsWithoutRaised(Len(report_call.read)))
  /\ report_call.state = "returned" =>
       Len(report_call.read) = Len(report_call.pages)

\* C17: a page row, once created, keeps its URL, its entry and its
\* has_sfmc_key and is never removed; a step of a pipeline unit changes only
\* the status and request_id of the page of that unit and no row of the
\* DataExtension table; no two rows of the page table have the same URL.
C17_StateInv ==
  \A p, q \in Pages :
    p # q => data_extension_pages[p].url # data_extension_pages[q].url

C17_Step ==
  /\ Len(data_extension_pages') >= Len(data_extension_pages)
  /\ \A p \in Pages :
       /\ data_extension_pages'[p].url = data_extension_pages[p].url
       /\ data_extension_pages'[p].data_extension_id
            = data_extension_pages[p].data_extension_id
       /\ data_extension_pages'[p].has_sfmc_key = data_extension_pages[p].has_sfmc_key
  /\ (pc = "starmap_pipeline" /\ pc' = "starmap_pipeline") =>
       /\ data_extensions' = data_extensions
       /\ Len(data_extension_pages') = Len(data_extension_pages)
       /\ \A p \in Pages :
            data_extension_pages'[p] # data_extension_pages[p] =>
              /\ p \in DOMAIN pipeline_tasks
              /\ pipeline_tasks'[p] # pipeline_tasks[p]
              /\ \A q \in Pages \ {p} :
                   data_extension_pages'[q] = data_extension_pages[q]
              /\ \A q \in DOMAIN pipeline_tasks \ {p} :
                   pipeline_tasks'[q] = pipeline_tasks[q]

C18_Step ==
  /\ (pc \in {"origin_info", "target_info"} /\ pc' \in Idle) =>
       /\ pc' = "raised"
       /\ data_extensions' = data_extensions
       /\ data_extension_pages' = data_extension_pages
       /\ attempts' = attempts
       /\ get_pages_tasks = NoTasks /\ get_pages_tasks' = NoTasks
       /\ pipeline_tasks = NoTasks /\ pipeline_tasks' = NoTasks
  /\ (pc = "raised" /\ pc' # "raised") =>
       /\ pc' = "origin_info"
       /\ runs' = runs + 1
       /\ data_extensions' = data_extensions
       /\ data_extension_pages' = data_extension_pages

C18_ListingFailureAborts == [][C18_Step]_vars

\* a second run has ended on a failed listing; the rows and pages the first
\* run committed are in the store
C18_Witness ==
  /\ pc = "raised"
  /\ runs = 2
  /\ \E e \in Entries : data_extensions[e].target_instance # NULL
  /\ \E p \in Pages : data_extension_pages[p].status = "processed"

\* C19: get_access_token returns the cached token without a request whenever
\* TOKENS holds an entry of the environment with now < expires_at_timestamp;
\* otherwise it makes exactly one request and replaces the entry of that
\* environment only; when the request fails or the body lacks access_token or
\* expires_in it raises instead of returning a value and leaves the entry as
\* it was.
C19_Step ==
  \A w \in Workers :
    LET before == token_calls[w]
        after == token_calls'[w]
    IN /\ after.request # before.request =>
            LET token == TOKENS[w][after.name]
                valid == \E t \in token : now < t.expires_at_timestamp
            IN /\ TOKENS' = TOKENS
               /\ valid => /\ after.state = "returned"
                           /\ after.exchanges = 0
                           /\ after.ret = { t.access_token : t \in token }
               /\ ~valid => /\ after.state = "exchange"
                            /\ after.exchanges = 1
                            /\ after.ret = {}
       /\ (before.state = "exchange" /\ after.state # "exchange") =>
            LET failed == \/ after.response.access_token = Missing
                          \/ after.response.expires_in = {}
            IN /\ after.request = before.request
               /\ after.exchanges = 1
               /\ \A v \in Workers, name \in EnvNames :
                    (v # w \/ name # before.name) =>
                      TOKENS'[v][name] = TOKENS[v][name]
               /\ failed => /\ after.state = "raised"
                            /\ after.ret = {}
                            /\ TOKENS'[w][before.name] = TOKENS[w][before.name]
               /\ ~failed => /\ after.state = "returned"
                             /\ after.ret = {after.response.access_token}
                             /\ TOKENS'[w][before.name] =
                                  { [access_token |-> after.response.access_token,
                                     expires_at_timestamp |-> now + d] :
                                      d \in after.response.expires_in }

C19_CachedOrOneExchange == [][C19_Step]_vars

\* a refresh of an entry that ran out got a body without expires_in: the call
\* raised, the old entry and the entry of the other environment are in TOKENS
C19_Witness ==
  \E w \in Workers :
    /\ token_calls[w].state = "raised"
    /\ token_calls[w].response.access_token # Missing
    /\ token_calls[w].response.expires_in = {}
    /\ \A name \in EnvNames : TOKENS[w][name] # {}
    /\ \E t \in TOKENS[w][token_calls[w].name] : t.expires_at_timestamp <= now

\* two get_access_token calls for one environment whose requests were in
\* flight at the same time and both returned
BothExchanged(w, v) ==
  /\ w # v
  /\ token_calls[w].state = "returned" /\ token_calls[v].state = "returned"
  /\ token_calls[w].exchanges = 1 /\ token_calls[v].exchanges = 1
  /\ token_calls[w].raced /\ token_calls[v].raced
  /\ token_calls[w].name = token_calls[v].name

\* C20: two processes that call get_access_token for one environment while
\* its entry is absent or expired can both have their request in flight, and
\* once both have returned, TOKENS holds one entry of that environment, which
\* is the token of one of the two responses with the expiry of that response.
C20_RaceKeepsOneOfBoth ==
  \A w, v \in Workers :
    BothExchanged(w, v) =>
      \A u \in {w, v} :
        /\ Cardinality(TOKENS[u][token_calls[w].name]) = 1
        /\ \E t \in TOKENS[u][token_calls[w].name], x \in {w, v} :
             /\ t.access_token = token_calls[x].response.access_token
             /\ \E d \in token_calls[x].response.expires_in :
                  t.expires_at_timestamp = token_calls[x].at + d

\* both requests were in flight together and were answered at different
\* times with different tokens
C20_Witness ==
  \E w, v \in Workers :
    /\ BothExchanged(w, v)
    /\ token_calls[w].response.access_token # token_calls[v].response.access_token
    /\ token_calls[w].at # token_calls[v].at

\* the entry belongs to the environment pair of the current run
OfThisRun(e) ==
  /\ data_extensions[e].origin_instance = args.origin.name
  /\ data_extensions[e].target_instance = args.target.name

\* C21: in every run, also one that follows runs of another environment pair
\* on the same store, every entry handed to get_pages and every page handed to
\* the pipeline belongs to an entry whose origin_instance is the run's origin
\* and whose target_instance is the run's target.
C21_RunKeepsToItsPair ==
  /\ pc = "starmap_get_pages" =>
       \A e \in DOMAIN get_pages_tasks : OfThisRun(e)
  /\ pc = "starmap_pipeline" =>
       \A p \in DOMAIN pipeline_tasks :
         OfThisRun(data_extension_pages[p].data_extension_id)

\* The reference aggregator: the loop of generate_report_for_data_extension
\* with one set of (page, row-index) pairs per error code, empty when the run
\* starts and kept over all rows and pages (held as triples of error code,
\* page id and row index). Its state is the reports dict, the set, and
\* whether the page raised.
RECURSIVE ReferenceErrors(_, _, _, _, _, _)
ReferenceErrors(errors, seen, result_errors, k, errorCode, row) ==
  IF k > Len(result_errors)
  THEN [errors |-> errors, seen |-> seen, raised |-> FALSE]
  ELSE LET error == result_errors[k] IN
       IF error.name = Missing
       THEN [errors |-> errors, seen |-> seen, raised |-> TRUE]
       ELSE LET report_error_key == << error.name, error.errorCode >>
                report_error == IF report_error_key \in DOMAIN errors
                                THEN errors[report_error_key]
                                ELSE NewReportError(error)
                first == << errorCode, row[1], row[2] >> \notin seen
                counted == [report_error EXCEPT
                              !.unique = IF first THEN @ + 1 ELSE @,
                              !.count = @ + 1]
            IN ReferenceErrors((report_error_key :> counted) @@ errors,
                               seen \cup {<< errorCode, row[1], row[2] >>},
                               result_errors, k + 1, errorCode, row)

ReferenceResult(reports_, seen, page_id, index, result) ==
  IF result.status = Missing
  THEN [reports |-> reports_, seen |-> seen, raised |-> TRUE]
  ELSE IF result.status # "Error"
  THEN [reports |-> reports_, seen |-> seen, raised |-> FALSE]
  ELSE LET found == result.errorCode \in DOMAIN reports_
           report == IF found THEN reports_[result.errorCode]
                     ELSE [data_extension |-> "a", errors |-> << >>]
       IN IF result.message # "Errors Occurred"
          THEN [reports |-> (result.errorCode :> report) @@ reports_,
                seen |-> seen, raised |-> FALSE]
          ELSE LET loop == ReferenceErrors(report.errors, seen, result.errors, 1,
                                           result.errorCode, << page_id, index >>)
                   report_ == [report EXCEPT !.errors = loop.errors]
               IN IF loop.raised /\ ~found
                  THEN [reports |-> reports_, seen |-> loop.seen, raised |-> TRUE]
                  ELSE [reports |-> (result.errorCode :> report_) @@ reports_,
                        seen |-> loop.seen, raised |-> loop.raised]

RECURSIVE ReferenceResults(_, _, _, _, _)
ReferenceResults(reports_, seen, page_id, results, index) ==
  IF index >= Len(results)
  THEN [reports |-> reports_, seen |-> seen, raised |-> FALSE]
  ELSE LET item == ReferenceResult(reports_, seen, page_id, index,
                                   results[index + 1])
       IN IF item.raised THEN item
          ELSE ReferenceResults(item.reports, item.seen, page_id, results,
                                index + 1)

\* the reference aggregator after the first k pages read
RECURSIVE ReferencePages(_)
ReferencePages(k) ==
  IF k = 0 THEN [reports |-> << >>, seen |-> {}, raised |-> FALSE]
  ELSE LET before == ReferencePages(k - 1) IN
       ReferenceResults(before.reports, before.seen, report_call.pages[k],
                        report_call.read[k].results, 0)

\* C22: for every sequence of page results the aggregator, which makes a new
\* seen set for each row, reports the same unique and count for every error
\* code and key as the reference aggregator, which keeps one seen set of
\* (page, row-index) pairs per error code over all pages of the run.
C22_SameAsRunWideSeenSet ==
  Counted(reports) = Counted(ReferencePages(Len(report_call.read)).reports)

\* two pages were read; row 0 of the first reported one key twice, row 0 of
\* the second reported it again under the same error code
C22_Witness ==
  /\ report_call.state = "returned"
  /\ Len(report_call.read) = 2
  /\ NoPageRaised
  /\ Cardinality(Occurrences("c1", << "f1", "x" >>)) = 3
  /\ Rows(Occurrences("c1", << "f1", "x" >>))
       = { << report_call.pages[1], 0 >>, << report_call.pages[2], 0 >> }
  /\ reports["c1"].errors[<< "f1", "x" >>].unique = 2
  /\ reports["c1"].errors[<< "f1", "x" >>].count = 3

====
